---- MODULE Spec2Model ----
(***************************************************************************)
(* A model of stocks.py: the pipeline fetch -> parse -> get_prices of the  *)
(* stock forecast scraper and the __main__ block that drives it.           *)
(*                                                                         *)
(* Text is modelled character by character: a Python str is a TLA+ string, *)
(* read one character at a time with SubSeq.  The page body is modelled as *)
(* the element tree it denotes (a sequence of nodes with a tag, an id,     *)
(* their own text and their child nodes); bs4's HTML tokenizer itself is   *)
(* library code and is not modelled.                                       *)
(***************************************************************************)
EXTENDS Integers, Sequences, FiniteSets, TLC

(***************************************************************************)
(* Python str helpers                                                      *)
(***************************************************************************)

\* s[i] for a 1-based index i.
Char(s, i) == SubSeq(s, i, i)

Digits == <<"0", "1", "2", "3", "4", "5", "6", "7", "8", "9">>

\* the character class \d
IsDigit(c) == \E d \in 1..10 : Digits[d] = c

\* int(c) for a digit character c
DigitValue(c) == (CHOOSE d \in 1..10 : Digits[d] = c) - 1

UpperLetters ==
    <<"A", "B", "C", "D", "E", "F", "G", "H", "I", "J", "K", "L", "M",
      "N", "O", "P", "Q", "R", "S", "T", "U", "V", "W", "X", "Y", "Z">>

LowerLetters ==
    <<"a", "b", "c", "d", "e", "f", "g", "h", "i", "j", "k", "l", "m",
      "n", "o", "p", "q", "r", "s", "t", "u", "v", "w", "x", "y", "z">>

LowerChar(c) ==
    IF \E n \in 1..26 : UpperLetters[n] = c
    THEN LowerLetters[CHOOSE n \in 1..26 : UpperLetters[n] = c]
    ELSE c

UpperChar(c) ==
    IF \E n \in 1..26 : LowerLetters[n] = c
    THEN UpperLetters[CHOOSE n \in 1..26 : LowerLetters[n] = c]
    ELSE c

\* The string operations below work on the halves of a range, so that the
\* evaluation depth grows with the logarithm of the length of the text.
RECURSIVE LowerRange(_, _, _)
LowerRange(s, lo, hi) ==
    IF lo > hi THEN ""
    ELSE IF lo = hi THEN LowerChar(Char(s, lo))
    ELSE LET mid == (lo + hi) \div 2
         IN LowerRange(s, lo, mid) \o LowerRange(s, mid + 1, hi)

\* str.lower()
Lower(s) == LowerRange(s, 1, Len(s))

RECURSIVE UpperRange(_, _, _)
UpperRange(s, lo, hi) ==
    IF lo > hi THEN ""
    ELSE IF lo = hi THEN UpperChar(Char(s, lo))
    ELSE LET mid == (lo + hi) \div 2
         IN UpperRange(s, lo, mid) \o UpperRange(s, mid + 1, hi)

\* str.upper()
Upper(s) == UpperRange(s, 1, Len(s))

RECURSIVE RemoveRange(_, _, _, _)
RemoveRange(s, c, lo, hi) ==
    IF lo > hi THEN ""
    ELSE IF lo = hi THEN (IF Char(s, lo) = c THEN "" ELSE Char(s, lo))
    ELSE LET mid == (lo + hi) \div 2
         IN RemoveRange(s, c, lo, mid) \o RemoveRange(s, c, mid + 1, hi)

\* item.text.replace(",", "")
StripCommas(s) == RemoveRange(s, ",", 1, Len(s))

RECURSIVE IntToStr(_)
IntToStr(n) ==
    IF n < 10 THEN Digits[n + 1] ELSE IntToStr(n \div 10) \o Digits[(n % 10) + 1]

(***************************************************************************)
(* PATTERN and re.match                                                    *)
(***************************************************************************)

Lit(s) == [t |-> "lit", s |-> s]
Digit == [t |-> "digit", s |-> ""]
DigitStar == [t |-> "digitstar", s |-> ""]
AnyChar == [t |-> "any", s |-> ""]
AnyStar == [t |-> "anystar", s |-> ""]
Open(name) == [t |-> "open", s |-> name]
Close(name) == [t |-> "close", s |-> name]
InOrDe == [t |-> "alt", s |-> ""]

\* (?P<name>\d*\.\d{2})
Price(name) == <<Open(name), DigitStar, Lit("."), Digit, Digit, Close(name)>>

PATTERN ==
    <<Lit("The "), Digit, AnyStar,
      Lit(" analysts offering 12-month price forecasts for "), AnyStar,
      Lit(" have a median target of ")>> \o Price("median")
    \o <<Lit(" with a high estimate of ")>> \o Price("high")
    \o <<Lit(" and a low estimate of ")>> \o Price("low")
    \o <<AnyChar, Lit(" The median estimate represents a "), AnyStar,
         Lit("% "), InOrDe, Lit("crease from the last price of ")>>
    \o Price("current") \o <<Lit(".")>>

\* (?:in|de), the alternatives in the order the engine tries them
Alternatives == <<"in", "de">>

NoMatchResult == [ok |-> FALSE, caps |-> <<>>]

StartsWith(s, i, lit) ==
    /\ i + Len(lit) - 1 <= Len(s)
    /\ SubSeq(s, i, i + Len(lit) - 1) = lit

\* whether the class of a repeated element accepts character c
InClass(t, c) ==
    IF t = "digitstar" THEN IsDigit(c) ELSE c # "\n"

\* the end of the longest run of class characters starting at i: the first
\* position from i on that holds no character of the class
RunEnd(s, i, t) ==
    LET stops == {j \in i..(Len(s) + 1) : j > Len(s) \/ ~InClass(t, Char(s, j))}
    IN CHOOSE j \in stops : \A m \in stops : j <= m

RECURSIVE MatchAt(_, _, _, _, _, _)
RECURSIVE Backtrack(_, _, _, _, _, _, _)
RECURSIVE TryAlternatives(_, _, _, _, _, _, _)

\* Match elements k.. of pattern p against s from position i; starts holds
\* the open positions of the named groups, caps the groups captured so far.
MatchAt(p, s, i, k, starts, caps) ==
    IF k > Len(p) THEN [ok |-> TRUE, caps |-> caps]
    ELSE LET e == p[k] IN
      CASE e.t = "lit" ->
             IF StartsWith(s, i, e.s)
             THEN MatchAt(p, s, i + Len(e.s), k + 1, starts, caps)
             ELSE NoMatchResult
        [] e.t = "digit" ->
             IF i <= Len(s) /\ IsDigit(Char(s, i))
             THEN MatchAt(p, s, i + 1, k + 1, starts, caps)
             ELSE NoMatchResult
        [] e.t = "any" ->
             IF i <= Len(s) /\ Char(s, i) # "\n"
             THEN MatchAt(p, s, i + 1, k + 1, starts, caps)
             ELSE NoMatchResult
        [] e.t \in {"anystar", "digitstar"} ->
             Backtrack(p, s, i, RunEnd(s, i, e.t), k, starts, caps)
        [] e.t = "alt" ->
             TryAlternatives(p, s, i, 1, k, starts, caps)
        [] e.t = "open" ->
             MatchAt(p, s, i, k + 1, (e.s :> i) @@ starts, caps)
        [] e.t = "close" ->
             MatchAt(p, s, i, k + 1, starts,
                     (e.s :> SubSeq(s, starts[e.s], i - 1)) @@ caps)

\* greedy repetition: of the run lengths i..j after which the rest of the
\* pattern matches, the engine reports the longest (it tries the longest run
\* first and gives back one character at a time)
Backtrack(p, s, i, j, k, starts, caps) ==
    LET tries == {[at |-> m, r |-> MatchAt(p, s, m, k + 1, starts, caps)] : m \in i..j}
        good == {x \in tries : x.r.ok}
    IN IF good = {} THEN NoMatchResult
       ELSE (CHOOSE x \in good : \A y \in good : y.at <= x.at).r

TryAlternatives(p, s, i, a, k, starts, caps) ==
    IF a > Len(Alternatives) THEN NoMatchResult
    ELSE LET r == IF StartsWith(s, i, Alternatives[a])
                  THEN MatchAt(p, s, i + Len(Alternatives[a]), k + 1, starts, caps)
                  ELSE NoMatchResult
         IN IF r.ok THEN r ELSE TryAlternatives(p, s, i, a + 1, k, starts, caps)

\* re.match(pattern=PATTERN, string=paragraph): anchored at the start of the
\* string only; .caps is match.groupdict()
ReMatch(p, s) == MatchAt(p, s, 1, 1, <<>>, <<>>)

(***************************************************************************)
(* Python values and exceptions                                            *)
(***************************************************************************)

\* a value of the program: its Python type, its text (for a str) and its
\* mapping (for a dict)
PyStr(s) == [type |-> "str", text |-> s, quote |-> <<>>]
PyFalse == [type |-> "bool", text |-> "", quote |-> <<>>]
PyNone == [type |-> "NoneType", text |-> "", quote |-> <<>>]
PyDict(d) == [type |-> "dict", text |-> "", quote |-> d]

NoError == [kind |-> "", msg |-> ""]
InvalidSymbolError(msg) == [kind |-> "InvalidSymbolError", msg |-> msg]
NetworkError(msg) == [kind |-> "NetworkError", msg |-> msg]
ParsingError(msg) == [kind |-> "ParsingError", msg |-> msg]
\* raised by the requests library when no response arrives
ConnectionError == [kind |-> "ConnectionError", msg |-> ""]

\* how a call ends: it returns value, or it raises error
Return(v) == [raised |-> FALSE, value |-> v, error |-> NoError]
Raise(e) == [raised |-> TRUE, value |-> <<>>, error |-> e]

(***************************************************************************)
(* decimal.Decimal                                                         *)
(***************************************************************************)

\* the digits of n without its trailing zeros, and how many were dropped
RECURSIVE DropZeros(_, _)
DropZeros(n, dropped) ==
    IF n # 0 /\ n % 10 = 0 THEN DropZeros(n \div 10, dropped + 1)
    ELSE [coef |-> n, dropped |-> dropped]

RECURSIVE ToInt(_, _)
\* the number the first n characters of the digit string s denote
ToInt(s, n) ==
    IF n = 0 THEN 0 ELSE 10 * ToInt(s, n - 1) + DigitValue(Char(s, n))

\* Decimal(value) as Decimal(str(float(value))) would give it: the float
\* keeps no trailing zero, so "34.50" becomes 345E-1
DecimalViaFloat(value) ==
    LET dot == CHOOSE i \in 1..Len(value) : Char(value, i) = "."
        digits == SubSeq(value, 1, dot - 1) \o SubSeq(value, dot + 1, Len(value))
        short == DropZeros(ToInt(digits, Len(digits)), 0)
    IN [coef |-> short.coef, exp |-> dot - Len(value) + short.dropped]

\* Decimal(value) for a text of digits with one decimal point: the digits as
\* an integer coefficient and the exponent the point puts on them.  No digit
\* is dropped: "34.50" is 3450E-2.
Decimal(value) ==
    LET dot == CHOOSE i \in 1..Len(value) : Char(value, i) = "."
        digits == SubSeq(value, 1, dot - 1) \o SubSeq(value, dot + 1, Len(value))
    IN [coef |-> ToInt(digits, Len(digits)), exp |-> dot - Len(value)]

(***************************************************************************)
(* The parsed page (bs4)                                                   *)
(***************************************************************************)

Node(tag, id, text, kids) == [tag |-> tag, id |-> id, text |-> text, kids |-> kids]

RECURSIVE Descendants(_)
\* the elements under a sequence of nodes, in document order
Descendants(nodes) ==
    IF Len(nodes) = 0 THEN <<>>
    ELSE <<Head(nodes)>> \o Descendants(Head(nodes).kids) \o Descendants(Tail(nodes))

RECURSIVE TextOf(_)
RECURSIVE JoinText(_)
\* Tag.text: every string under the element, concatenated in document order
TextOf(node) == node.text \o JoinText(node.kids)
JoinText(nodes) ==
    IF Len(nodes) = 0 THEN "" ELSE TextOf(Head(nodes)) \o JoinText(Tail(nodes))

\* find_all(tag) under a sequence of nodes
FindAll(nodes, tag) == SelectSeq(Descendants(nodes), LAMBDA n : n.tag = tag)

\* find(id=...): the first element with that id, or None
Find(nodes, id) ==
    LET hits == SelectSeq(Descendants(nodes), LAMBDA n : n.id = id)
    IN IF Len(hits) = 0 THEN [found |-> FALSE, node |-> Node("", "", "", <<>>)]
       ELSE [found |-> TRUE, node |-> hits[1]]

(***************************************************************************)
(* fetch, parse, get_prices                                                *)
(***************************************************************************)

BASE_URL == "https://money.cnn.com/quote/forecast/forecast.html?symb="

\* fetch with the symbol checked only after the request has been sent
fetchRequestFirst(symbol, url, response) ==
    [sent |-> <<url \o symbol>>,
     out |-> IF symbol = ""
             THEN Raise(InvalidSymbolError("The symbol must contain at least one character"))
             ELSE IF ~response.arrived THEN Raise(ConnectionError)
             ELSE IF response.status_code = 200
                  THEN Return(response.text)
                  ELSE Raise(NetworkError(
                         "The page could not be loaded. (Error: "
                         \o IntToStr(response.status_code) \o " - Reason: "
                         \o response.reason \o ")"))]

\* fetch with every status below 400 taken for a success
fetchOkBelow400(symbol, url, response) ==
    IF symbol = ""
    THEN [sent |-> <<>>,
          out |-> Raise(InvalidSymbolError("The symbol must contain at least one character"))]
    ELSE [sent |-> <<url \o symbol>>,
          out |-> IF ~response.arrived THEN Raise(ConnectionError)
                  ELSE IF response.status_code < 400
                       THEN Return(response.text)
                       ELSE Raise(NetworkError(
                              "The page could not be loaded. (Error: "
                              \o IntToStr(response.status_code) \o " - Reason: "
                              \o response.reason \o ")"))]

\* fetch(symbol, url) when the server answers the request with response;
\* .sent is the sequence of GET requests the call dispatches
fetch(symbol, url, response) ==
    IF symbol = ""
    THEN [sent |-> <<>>,
          out |-> Raise(InvalidSymbolError("The symbol must contain at least one character"))]
    ELSE [sent |-> <<url \o symbol>>,
          out |-> IF ~response.arrived THEN Raise(ConnectionError)
                  ELSE IF response.status_code = 200
                       THEN Return(response.text)
                       ELSE Raise(NetworkError(
                              "The page could not be loaded. (Error: "
                              \o IntToStr(response.status_code) \o " - Reason: "
                              \o response.reason \o ")"))]

\* parse with the forecasts tab looked up before the headings are checked
parseRegionFirst(page) ==
    LET h1s == FindAll(page, "h1")
        headings == [i \in 1..Len(h1s) |-> Lower(TextOf(h1s[i]))]
        tab == Find(page, "wsod_forecasts")
    IN IF tab.found
       THEN Return(FindAll(tab.node.kids, "p"))
       ELSE IF \E i \in 1..Len(h1s) : headings[i] = "symbol not found"
            THEN Raise(InvalidSymbolError("The symbol could not be found"))
            ELSE Raise(ParsingError("An error occurred while attempting to parse this page."))

\* parse returning every element of the forecasts tab, not only the paragraphs
parseAllElements(page) ==
    LET h1s == FindAll(page, "h1")
        headings == [i \in 1..Len(h1s) |-> Lower(TextOf(h1s[i]))]
    IN IF \E i \in 1..Len(h1s) : headings[i] = "symbol not found"
       THEN Raise(InvalidSymbolError("The symbol could not be found"))
       ELSE LET tab == Find(page, "wsod_forecasts")
            IN IF tab.found
               THEN Return(Descendants(tab.node.kids))
               ELSE Raise(ParsingError("An error occurred while attempting to parse this page."))

\* parse(page)
parse(page) ==
    LET h1s == FindAll(page, "h1")
        headings == [i \in 1..Len(h1s) |-> Lower(TextOf(h1s[i]))]
    IN IF \E i \in 1..Len(h1s) : headings[i] = "symbol not found"
       THEN Raise(InvalidSymbolError("The symbol could not be found"))
       ELSE LET tab == Find(page, "wsod_forecasts")
            IN IF tab.found
               THEN Return(FindAll(tab.node.kids, "p"))
               ELSE Raise(ParsingError("An error occurred while attempting to parse this page."))

\* the loop body comparing the paragraph itself, not its lower-cased text,
\* with the no-forecast sentence
ScanItemCaseSensitive(item) ==
    LET paragraph == StripCommas(TextOf(item))
        match == ReMatch(PATTERN, paragraph)
    IN IF match.ok /\ DOMAIN match.caps = {"current", "high", "median", "low"}
       THEN Return(PyDict([key \in DOMAIN match.caps |-> Decimal(match.caps[key])]))
       ELSE IF paragraph = "there is no forecast data available."
            THEN Raise(InvalidSymbolError("This symbol does not have any forecast data"))
            ELSE Return(PyFalse)

\* the loop body raising ParsingError for the no-forecast sentence
ScanItemParsingError(item) ==
    LET paragraph == StripCommas(TextOf(item))
        match == ReMatch(PATTERN, paragraph)
    IN IF match.ok /\ DOMAIN match.caps = {"current", "high", "median", "low"}
       THEN Return(PyDict([key \in DOMAIN match.caps |-> Decimal(match.caps[key])]))
       ELSE IF Lower(paragraph) = "there is no forecast data available."
            THEN Raise(ParsingError("This symbol does not have any forecast data"))
            ELSE Return(PyFalse)

\* the body of the loop of get_prices for one item: each of its three
\* branches leaves the function
ScanItem(item) ==
    LET paragraph == StripCommas(TextOf(item))
        match == ReMatch(PATTERN, paragraph)
    IN IF match.ok /\ DOMAIN match.caps = {"current", "high", "median", "low"}
       THEN Return(PyDict([key \in DOMAIN match.caps |-> Decimal(match.caps[key])]))
       ELSE IF Lower(paragraph) = "there is no forecast data available."
            THEN Raise(InvalidSymbolError("This symbol does not have any forecast data"))
            ELSE Return(PyFalse)

RECURSIVE ScanFrom(_, _)
\* the loop going on to the next item when one neither matches PATTERN nor is
\* the no-forecast sentence, and returning False after the last one
ScanFrom(items, i) ==
    IF i > Len(items) THEN [examined |-> i - 1, out |-> Return(PyFalse)]
    ELSE LET r == ScanItem(items[i])
         IN IF ~r.raised /\ r.value.type = "bool" THEN ScanFrom(items, i + 1)
            ELSE [examined |-> i, out |-> r]

get_pricesScanAll(items) == ScanFrom(items, 1)

\* get_prices(items); .examined counts the items whose text was read.  The
\* loop body returns or raises on the first item, and a loop over no item
\* falls off the end of the function, which returns None.
get_prices(items) ==
    IF Len(items) = 0
    THEN [examined |-> 0, out |-> Return(PyNone)]
    ELSE [examined |-> 1, out |-> ScanItem(items[1])]

(***************************************************************************)
(* Inputs: command lines, URLs, and what the server answers                *)
(***************************************************************************)

\* the largest number of child elements of the forecasts region of a page
MaxParagraphs == 2

Argvs == {<<"stocks.py">>, <<"stocks.py", "">>, <<"stocks.py", "t">>}

\* the url argument of fetch: its default, and the one of a doctest
Urls == {BASE_URL, "https://httpstat.us/500?"}

\* a paragraph written the way PATTERN expects it, followed by tail
Sentence(f) ==
    "The " \o f.n \o " analysts offering 12-month price forecasts for " \o f.name
    \o " have a median target of " \o f.median
    \o " with a high estimate of " \o f.high
    \o " and a low estimate of " \o f.low
    \o ". The median estimate represents a " \o f.pct \o "% " \o f.dir
    \o "crease from the last price of " \o f.current \o "." \o f.tail

Forecasts ==
    <<[n |-> "25", name |-> "AT&T Inc", median |-> "34.50", high |-> "50.00",
       low |-> "20.00", pct |-> "+15.00", dir |-> "in", current |-> "30.00",
       tail |-> ""],
      [n |-> "5", name |-> "Amazon.com, Inc.", median |-> "1,234.50",
       high |-> "2,000.00", low |-> ".50", pct |-> "-5.04", dir |-> "de",
       current |-> "1,300.00", tail |-> " Read more."]>>

\* one fractional digit in the median: not a paragraph PATTERN accepts
NearMiss == Sentence([Forecasts[1] EXCEPT !.median = "34.5"])

NoForecastText == "There is no forecast data available."

ShoutedNoForecastText == "THERE IS NO FORECAST DATA AVAILABLE."

OtherText == "Quote data is delayed by 15 minutes."

P(text) == Node("p", "", text, <<>>)

H1(text) == Node("h1", "", text, <<>>)

\* the elements a forecasts region is filled with
RegionKids ==
    {P(Sentence(Forecasts[1])), P(Sentence(Forecasts[2])), P(NoForecastText),
     P(OtherText), P(NearMiss), Node("span", "", "Forecast", <<>>)}

KidSeqs == UNION {[1..n -> RegionKids] : n \in 0..MaxParagraphs}

Region(kids) == Node("div", "wsod_forecasts", "", kids)

\* the headings of a page, before and after its body; sentinel tells whether
\* one of them reads "symbol not found" in some letter case
Headings ==
    {[before |-> <<>>, after |-> <<>>, sentinel |-> FALSE],
     [before |-> <<H1("AT&T Inc")>>, after |-> <<>>, sentinel |-> FALSE],
     [before |-> <<H1("Symbol not found.")>>, after |-> <<>>, sentinel |-> FALSE],
     [before |-> <<H1("Symbol Not Found")>>, after |-> <<>>, sentinel |-> TRUE],
     [before |-> <<>>, after |-> <<H1("SYMBOL NOT FOUND")>>, sentinel |-> TRUE],
     [before |-> <<H1("Quote")>>, after |-> <<H1("symbol not found")>>, sentinel |-> TRUE],
     [before |-> <<Node("h1", "", "Symbol ", <<Node("b", "", "Not Found", <<>>)>>)>>,
      after |-> <<>>, sentinel |-> TRUE]}

\* the body of a page: region tells whether an element with the id of the
\* forecasts tab is in it, paras are the paragraphs inside that element
Bodies ==
    {[nodes |-> <<>>, region |-> FALSE, paras |-> <<>>],
     [nodes |-> <<Node("div", "wsod_news", "", <<P(Sentence(Forecasts[1]))>>)>>,
      region |-> FALSE, paras |-> <<>>],
     [nodes |-> <<P(Sentence(Forecasts[1]))>>, region |-> FALSE, paras |-> <<>>],
     [nodes |-> <<P(Sentence(Forecasts[1])), Region(<<P(NoForecastText)>>)>>,
      region |-> TRUE, paras |-> <<P(NoForecastText)>>],
     [nodes |-> <<Node("div", "wsod_content", "", <<Region(<<P(Sentence(Forecasts[2]))>>)>>)>>,
      region |-> TRUE, paras |-> <<P(Sentence(Forecasts[2]))>>],
     [nodes |-> <<Region(<<P(ShoutedNoForecastText), P(Sentence(Forecasts[1]))>>)>>,
      region |-> TRUE,
      paras |-> <<P(ShoutedNoForecastText), P(Sentence(Forecasts[1]))>>],
     [nodes |-> <<Region(<<P(OtherText)>>), Region(<<P(Sentence(Forecasts[1]))>>)>>,
      region |-> TRUE, paras |-> <<P(OtherText)>>],
     [nodes |-> <<Region(<<Node("p", "", "There is no ",
                                <<Node("b", "", "forecast data available.", <<>>)>>)>>)>>,
      region |-> TRUE,
      paras |-> <<Node("p", "", "There is no ",
                       <<Node("b", "", "forecast data available.", <<>>)>>)>>]}
    \cup {[nodes |-> <<Region(k)>>, region |-> TRUE,
           paras |-> SelectSeq(k, LAMBDA n : n.tag = "p")] : k \in KidSeqs}

\* what requests.get comes back with: no response at all, or a response with
\* a status, a reason and a body; sentinel, region and paras describe the
\* document in the body
NoResponse ==
    [arrived |-> FALSE, status_code |-> 0, reason |-> "", text |-> <<>>,
     sentinel |-> FALSE, region |-> FALSE, paras |-> <<>>]

Failed(status, reason) ==
    [arrived |-> TRUE, status_code |-> status, reason |-> reason, text |-> <<>>,
     sentinel |-> FALSE, region |-> FALSE, paras |-> <<>>]

Responses ==
    {NoResponse, Failed(204, "No Content"), Failed(404, "Not Found"),
     Failed(500, "Internal Server Error")}
    \cup {[arrived |-> TRUE, status_code |-> 200, reason |-> "OK",
           text |-> h.before \o b.nodes \o h.after,
           sentinel |-> h.sentinel, region |-> b.region, paras |-> b.paras]
          : h \in Headings, b \in Bodies}

(***************************************************************************)
(* The run of the program                                                  *)
(***************************************************************************)

VARIABLES
    argv,        \* sys.argv
    url,         \* the url argument of fetch
    pc,          \* the statement of __main__ to run next
    symbol,      \* symbol (line 166 or 169)
    stdout,      \* the values printed so far
    response,    \* what requests.get came back with
    requests,    \* the GET requests dispatched so far
    webpage,     \* webpage (line 173)
    elements,    \* elements (line 174)
    prices,      \* prices (line 175)
    examined,    \* the number of items get_prices read the text of
    calls,       \* the functions called so far, in order
    error,       \* the exception that ended the run, if one did
    raisedBy,    \* the function that raised it
    exitStatus   \* the exit status of the process; -1 while it runs

vars == <<argv, url, pc, symbol, stdout, response, requests, webpage, elements,
          prices, examined, calls, error, raisedBy, exitStatus>>

Init ==
    /\ argv \in Argvs
    /\ url \in Urls
    /\ pc = "main"
    /\ symbol = ""
    /\ stdout = <<>>
    /\ response = NoResponse
    /\ requests = <<>>
    /\ webpage = <<>>
    /\ elements = <<>>
    /\ prices = PyNone
    /\ examined = 0
    /\ calls = <<>>
    /\ error = NoError
    /\ raisedBy = ""
    /\ exitStatus = -1

\* an exception nothing catches: the traceback is printed and the process
\* ends with status 1
Propagate(e, fn) ==
    /\ error' = e
    /\ raisedBy' = fn
    /\ pc' = "exited"
    /\ exitStatus' = 1

\* lines 159-171.  Without an argument the doctests run first (their own
\* calls of fetch, parse and get_prices are not part of this run's state) and
\* the symbol is "gme".
Main ==
    /\ pc = "main"
    /\ symbol' = IF Len(argv) = 1 THEN "gme" ELSE argv[2]
    /\ stdout' = (IF Len(argv) = 1 THEN <<PyStr("RUNNING TESTS")>> ELSE <<>>)
                 \o <<PyStr("Getting " \o Upper(symbol') \o " stock forecast")>>
    /\ pc' = "fetch"
    /\ UNCHANGED <<argv, url, response, requests, webpage, elements, prices,
                   examined, calls, error, raisedBy, exitStatus>>

\* line 173
Fetch ==
    /\ pc = "fetch"
    /\ \E r \in (IF symbol = "" THEN {NoResponse} ELSE Responses) :
         LET call == fetch(symbol, url, r)
         IN /\ requests' = requests \o call.sent
            /\ response' = IF Len(call.sent) = 0 THEN response ELSE r
            /\ calls' = Append(calls, "fetch")
            /\ IF call.out.raised
               THEN /\ Propagate(call.out.error, "fetch")
                    /\ UNCHANGED webpage
               ELSE /\ webpage' = call.out.value
                    /\ pc' = "parse"
                    /\ UNCHANGED <<error, raisedBy, exitStatus>>
    /\ UNCHANGED <<argv, url, symbol, stdout, elements, prices, examined>>

\* line 174
Parse ==
    /\ pc = "parse"
    /\ LET call == parse(webpage)
       IN /\ calls' = Append(calls, "parse")
          /\ IF call.raised
             THEN /\ Propagate(call.error, "parse")
                  /\ UNCHANGED elements
             ELSE /\ elements' = call.value
                  /\ pc' = "get_prices"
                  /\ UNCHANGED <<error, raisedBy, exitStatus>>
    /\ UNCHANGED <<argv, url, symbol, stdout, response, requests, webpage,
                   prices, examined>>

\* line 175
GetPrices ==
    /\ pc = "get_prices"
    /\ LET call == get_prices(elements)
       IN /\ calls' = Append(calls, "get_prices")
          /\ examined' = call.examined
          /\ IF call.out.raised
             THEN /\ Propagate(call.out.error, "get_prices")
                  /\ UNCHANGED prices
             ELSE /\ prices' = call.out.value
                  /\ pc' = "print"
                  /\ UNCHANGED <<error, raisedBy, exitStatus>>
    /\ UNCHANGED <<argv, url, symbol, stdout, response, requests, webpage,
                   elements>>

\* line 177, and the end of the script
PrintPrices ==
    /\ pc = "print"
    /\ stdout' = Append(stdout, prices)
    /\ pc' = "exited"
    /\ exitStatus' = 0
    /\ UNCHANGED <<argv, url, symbol, response, requests, webpage, elements,
                   prices, examined, calls, error, raisedBy>>

Next == Main \/ Fetch \/ Parse \/ GetPrices \/ PrintPrices

Spec == Init /\ [][Next]_vars

(***************************************************************************)
(* Properties                                                              *)
(***************************************************************************)

Called(fn) == \E i \in 1..Len(calls) : calls[i] = fn

Keys == {"current", "median", "high", "low"}

\* the quotes the two forecasts state, written out by hand
ExpectedQuotes ==
    <<[median |-> [coef |-> 3450, exp |-> -2], high |-> [coef |-> 5000, exp |-> -2],
       low |-> [coef |-> 2000, exp |-> -2], current |-> [coef |-> 3000, exp |-> -2]],
      [median |-> [coef |-> 123450, exp |-> -2], high |-> [coef |-> 200000, exp |-> -2],
       low |-> [coef |-> 50, exp |-> -2], current |-> [coef |-> 130000, exp |-> -2]]>>

\* the messages of NetworkError for the responses the server gives
ExpectedNetworkMessage(status) ==
    CASE status = 204 -> "The page could not be loaded. (Error: 204 - Reason: No Content)"
      [] status = 404 -> "The page could not be loaded. (Error: 404 - Reason: Not Found)"
      [] status = 500 ->
           "The page could not be loaded. (Error: 500 - Reason: Internal Server Error)"

\* the text of the first fragment handed to get_prices
FirstText == TextOf(elements[1])

FirstIsForecast(i) == Len(elements) > 0 /\ FirstText = Sentence(Forecasts[i])

FirstIsNoForecast ==
    Len(elements) > 0 /\ FirstText \in {NoForecastText, ShoutedNoForecastText}

FirstIsOther == Len(elements) > 0 /\ FirstText \in {OtherText, NearMiss}

\* C1: a call of fetch with the empty symbol, whatever the base URL, fails
\* with InvalidSymbolError and dispatches no HTTP request.
C1_EmptySymbolNoRequest ==
    (Called("fetch") /\ symbol = "") =>
        /\ requests = <<>>
        /\ raisedBy = "fetch"
        /\ error = InvalidSymbolError("The symbol must contain at least one character")
        /\ pc = "exited"

C1_Witness ==
    /\ Called("fetch")
    /\ symbol = ""
    /\ url # BASE_URL
    /\ error.kind = "InvalidSymbolError"

\* C2: a call of fetch with a non-empty symbol dispatches exactly one GET, to
\* url + symbol; a response with status 200 makes it return the whole body, a
\* response with any other status makes it raise NetworkError with that
\* status code and reason in the message.
C2_OneRequestDecides ==
    (Called("fetch") /\ symbol # "") =>
        /\ requests = <<url \o symbol>>
        /\ (response.arrived /\ response.status_code = 200) =>
               (raisedBy # "fetch" /\ webpage = response.text)
        /\ (response.arrived /\ response.status_code # 200) =>
               /\ raisedBy = "fetch"
               /\ error = NetworkError(ExpectedNetworkMessage(response.status_code))
               /\ calls = <<"fetch">>

C2_Witness ==
    /\ Called("fetch")
    /\ response.arrived
    /\ response.status_code = 204
    /\ error.kind = "NetworkError"
    /\ Len(requests) = 1

\* C3: a page with a heading that reads "symbol not found" in any letter case
\* makes parse raise the symbol-not-found error, whether or not the forecasts
\* region is present and whatever it holds.
C3_SentinelHeadingFirst ==
    (Called("parse") /\ response.sentinel) =>
        /\ raisedBy = "parse"
        /\ error = InvalidSymbolError("The symbol could not be found")
        /\ elements = <<>>
        /\ pc = "exited"

C3_Witness ==
    /\ Called("parse")
    /\ response.sentinel
    /\ response.region
    /\ Len(response.paras) > 0
    /\ raisedBy = "parse"

\* C4: on a page without the sentinel heading, parse raises ParsingError
\* exactly when the forecasts region is absent; when it is present parse
\* returns the paragraphs inside it in document order, the empty tuple for a
\* region without paragraphs.
C4_RegionParagraphs ==
    (Called("parse") /\ ~response.sentinel) =>
        /\ (error.kind = "ParsingError") <=> ~response.region
        /\ ~response.region =>
               /\ raisedBy = "parse"
               /\ error = ParsingError("An error occurred while attempting to parse this page.")
        /\ response.region => (raisedBy # "parse" /\ elements = response.paras)

C4_Witness ==
    /\ Called("parse")
    /\ ~response.sentinel
    /\ response.region
    /\ response.paras = <<>>
    /\ pc = "get_prices"
    /\ error = NoError

\* C5: when the first fragment, commas stripped, matches PATTERN, get_prices
\* returns a mapping with exactly the keys current, median, high and low,
\* each the exact decimal of the captured text, whatever fragments follow.
C5_FourExactDecimals ==
    /\ \A i \in 1..Len(Forecasts) :
          (Called("get_prices") /\ FirstIsForecast(i)) =>
              /\ raisedBy = ""
              /\ prices.type = "dict"
              /\ DOMAIN prices.quote = Keys
              /\ prices.quote = ExpectedQuotes[i]
    /\ (Called("get_prices") /\ prices.type = "dict") => DOMAIN prices.quote = Keys

C5_Witness ==
    /\ Called("get_prices")
    /\ FirstIsForecast(2)
    /\ Len(elements) = 2
    /\ TextOf(elements[2]) = NoForecastText
    /\ prices.type = "dict"

\* C6: when the text of the first fragment equals, letter case aside, "there
\* is no forecast data available.", get_prices raises the no-forecast-data
\* error, whatever fragments follow.
C6_NoForecastData ==
    (Called("get_prices") /\ FirstIsNoForecast) =>
        /\ raisedBy = "get_prices"
        /\ error = InvalidSymbolError("This symbol does not have any forecast data")
        /\ pc = "exited"

C6_Witness ==
    /\ Called("get_prices")
    /\ Len(elements) = 2
    /\ FirstText = NoForecastText
    /\ TextOf(elements[2]) = Sentence(Forecasts[1])
    /\ raisedBy = "get_prices"

\* the state of the Matcher: Scanning until get_prices has run, then the way
\* get_prices ended
MatcherState ==
    IF ~Called("get_prices") THEN "Scanning"
    ELSE IF raisedBy = "get_prices" THEN "NoData"
    ELSE IF prices.type = "dict" THEN "Matched"
    ELSE "NoMatch"

C8_EmptySameAsNoMatch ==
    (Called("get_prices") /\ Len(elements) = 0) =>
        prices = get_prices(<<P(OtherText)>>).out.value

\* C9 as stated: each condition has an error kind of its own, so that
\* InvalidSymbolError comes from fetch alone, for the empty symbol alone.
C9_OneKindPerCondition ==
    (error.kind = "InvalidSymbolError") => (raisedBy = "fetch" /\ symbol = "")

\* C9, amended: NetworkError comes from fetch alone, for a status other than
\* 200, and ParsingError from parse alone, for an absent region;
\* InvalidSymbolError comes from fetch for the empty symbol, from parse for
\* the sentinel heading and from get_prices for the no-forecast sentence, and
\* the message tells the three apart.
C9_KindAndMessage ==
    /\ error.kind \in {"", "InvalidSymbolError", "NetworkError", "ParsingError",
                       "ConnectionError"}
    /\ (error.kind = "NetworkError") =>
           (raisedBy = "fetch" /\ response.arrived /\ response.status_code # 200)
    /\ (error.kind = "ParsingError") =>
           (raisedBy = "parse" /\ ~response.sentinel /\ ~response.region)
    /\ (error.kind = "InvalidSymbolError") =>
           \/ /\ error.msg = "The symbol must contain at least one character"
              /\ raisedBy = "fetch"
              /\ symbol = ""
           \/ /\ error.msg = "The symbol could not be found"
              /\ raisedBy = "parse"
              /\ response.sentinel
           \/ /\ error.msg = "This symbol does not have any forecast data"
              /\ raisedBy = "get_prices"
              /\ FirstIsNoForecast

C9_Witness ==
    /\ error.kind = "InvalidSymbolError"
    /\ raisedBy = "get_prices"
    /\ symbol # ""

\* C10: a run with one symbol argument ends either with a four-key quote
\* mapping printed, after fetch, parse and get_prices ran in this order, or
\* with the first failure ending the process with a non-zero status; nothing
\* but a quote is ever printed as the result.
C10_QuoteOrFailure ==
    (Len(argv) = 2 /\ pc = "exited") =>
        \/ /\ exitStatus = 0
           /\ error = NoError
           /\ calls = <<"fetch", "parse", "get_prices">>
           /\ stdout[Len(stdout)].type = "dict"
           /\ DOMAIN stdout[Len(stdout)].quote = Keys
        \/ /\ exitStatus # 0
           /\ error # NoError
           /\ calls = SubSeq(<<"fetch", "parse", "get_prices">>, 1, Len(calls))
           /\ raisedBy = calls[Len(calls)]
           /\ Len(stdout) = 1

====
